---- MODULE Spec2Model ----
(***************************************************************************)
(* Model of src/range_tree.py: the two-level median-split tree built by    *)
(* RangeTree2D (a primary tree on feature-space x, a secondary tree on     *)
(* feature-space y nested in every primary node), the single-path query    *)
(* descent, and the reference program that feeds them.                     *)
(***************************************************************************)
EXTENDS Integers, Sequences, FiniteSets

VARIABLES feature_space, real_space, points, input, root, pc, error,
          query_point, visited_nodes, rendered

vars == <<feature_space, real_space, points, input, root, pc, error,
          query_point, visited_nodes, rendered>>

(* ------------------------------ bounds --------------------------------- *)

\* Longest coordinate list the model enumerates.
MaxLen == 4

(* ---------------------------- data model ------------------------------- *)

\* Python's None.
None == [none |-> TRUE]

\* class Point
Point(x, y) == [x |-> x, y |-> y]

\* class Node: a feature-space Point paired with a real-space Point.
Node(feature_point, real_point) ==
    [feature_point |-> feature_point, real_point |-> real_point]

\* Coordinate pairs the lists of the reference program are drawn from.
\* The feature pairs tie in x, tie in y, and order differently in x and y;
\* the real pairs contain collinear and non-collinear selections.
FeatureCoords == {<<0, 1>>, <<1, 0>>, <<1, 1>>}
RealCoords == {<<0, 0>>, <<1, 0>>, <<0, 1>>}

\* The (feature, real) pairs of the equal-length lists: every feature pair
\* with two real pairs, so that equal feature points stay distinguishable,
\* and every real pair.
SamplePairs == {<<<<0, 1>>, <<0, 0>>>>, <<<<0, 1>>, <<1, 0>>>>,
                <<<<1, 0>>, <<1, 0>>>>, <<<<1, 0>>, <<0, 1>>>>,
                <<<<1, 1>>, <<0, 1>>>>, <<<<1, 1>>, <<0, 0>>>>}

\* Feature-space x of the query targets: at, between and above the data.
QueryXs == {0, 1, 2}

\* The query target of the reference program, with its x drawn from QueryXs.
QueryPoints == {Node(Point(x, 6), Point(4, 6)) : x \in QueryXs}

ListsOver(S, n) == UNION {[1..k -> S] : k \in 0..n}

(* ------------------------------ sorting -------------------------------- *)

\* The sort keys: lambda p: p.feature_point.x and lambda p: p.feature_point.y
KeyOf(p, k) == IF k = "x" THEN p.feature_point.x ELSE p.feature_point.y

\* Python's list sort is stable. InsertStable puts e into the sorted list s
\* behind every element whose key is not larger; StableSort inserts the
\* elements in their original order, so equal keys keep that order.
RECURSIVE InsertStable(_, _, _)
InsertStable(s, e, k) ==
    IF s = <<>> THEN <<e>>
    ELSE IF KeyOf(e, k) < KeyOf(Head(s), k) THEN <<e>> \o s
    ELSE <<Head(s)>> \o InsertStable(Tail(s), e, k)

RECURSIVE StableSort(_, _)
StableSort(s, k) ==
    IF s = <<>> THEN <<>>
    ELSE InsertStable(StableSort(SubSeq(s, 1, Len(s) - 1), k), s[Len(s)], k)

\* list.sort(key=...): the value the list holds after the in-place sort.
sort(pts, k) == StableSort(pts, k)

\* A sort that ignores the requested key.
sorted_wrong_key(pts, k) == StableSort(pts, "x")

\* sorted(points, key=...): a fresh sorted list.
sorted(pts, k) == StableSort(pts, k)

(* ------------------------------ diagram -------------------------------- *)

\* Fewest points for which a diagram is attempted.
MinVoronoiPoints == 4

\* The geometry library fails on input that spans no area (all points on
\* one line, or all equal).
Collinear(cs) ==
    \A i, j, k \in 1..Len(cs) :
        (cs[j][1] - cs[i][1]) * (cs[k][2] - cs[i][2])
      = (cs[k][1] - cs[i][1]) * (cs[j][2] - cs[i][2])

\* [(p.real_point.x, p.real_point.y) for p in points]
real_points_as_float(pts) ==
    [i \in 1..Len(pts) |-> <<pts[i].real_point.x, pts[i].real_point.y>>]

\* The opaque diagram handle.
Voronoi(cs) == [voronoi_of |-> cs]

\* A diagram gate that lets three points through.
compute_voronoi_min3(pts) ==
    IF Len(pts) < 3 THEN None
    ELSE IF Collinear(real_points_as_float(pts)) THEN None
    ELSE Voronoi(real_points_as_float(pts))

compute_voronoi(pts) ==
    IF Len(pts) < MinVoronoiPoints THEN None
    ELSE IF Collinear(real_points_as_float(pts)) THEN None
    ELSE Voronoi(real_points_as_float(pts))

(* ---------------------------- construction ----------------------------- *)

\* The last element taken as the median.
MidLast(pts) == Len(pts) - 1

\* The lower median.
MidLower(pts) == (Len(pts) - 1) \div 2

\* mid = len(points) // 2   (a 0-based index)
Mid(pts) == Len(pts) \div 2

\* points[:mid]
LeftOf(pts, mid) == SubSeq(pts, 1, mid)

\* A right slice that starts one element late: points[mid + 2:]
RightOfSkip(pts, mid) == SubSeq(pts, mid + 3, Len(pts))

\* points[mid + 1:]
RightOf(pts, mid) == SubSeq(pts, mid + 2, Len(pts))

\* A secondary build that never recurses to the right.
RECURSIVE build_tree_on_y_no_right(_)
build_tree_on_y_no_right(pts) ==
    IF pts = <<>> THEN [ret |-> None, points |-> pts]
    ELSE LET s == sort(pts, "y")
             mid == Mid(s)
         IN [ret |-> [point |-> s[mid + 1],
                      left |-> build_tree_on_y_no_right(LeftOf(s, mid)).ret,
                      right |-> None,
                      voronoi |-> compute_voronoi(s)],
             points |-> s]

\* _build_tree_on_y: ret is the returned node, points is the value the
\* argument list holds after the call (it is sorted in place).
RECURSIVE build_tree_on_y(_)
build_tree_on_y(pts) ==
    IF pts = <<>> THEN [ret |-> None, points |-> pts]
    ELSE LET s == sort(pts, "y")
             mid == Mid(s)
         IN [ret |-> [point |-> s[mid + 1],
                      left |-> build_tree_on_y(LeftOf(s, mid)).ret,
                      right |-> build_tree_on_y(RightOf(s, mid)).ret,
                      voronoi |-> compute_voronoi(s)],
             points |-> s]

\* A primary build that builds the secondary tree first, so that the median
\* and the two halves are read from the list after its in-place sort by y.
RECURSIVE build_tree_on_x_y_first(_)
build_tree_on_x_y_first(pts) ==
    IF pts = <<>> THEN [ret |-> None, points |-> pts]
    ELSE LET byx == sort(pts, "x")
             ycall == build_tree_on_y(byx)
             byy == ycall.points
             mid == Mid(byy)
         IN [ret |-> [point |-> byy[mid + 1],
                      left |-> build_tree_on_x_y_first(LeftOf(byy, mid)).ret,
                      right |-> build_tree_on_x_y_first(RightOf(byy, mid)).ret,
                      range_tree_on_y |-> ycall.ret,
                      points_sorted_by_y |-> sorted(byy, "y"),
                      voronoi |-> compute_voronoi(byy)],
             points |-> byy]

\* _build_tree_on_x. The dict literal is evaluated in order: the median and
\* the two slices are taken from the x-sorted list, then _build_tree_on_y
\* sorts the same list in place by y, and 'points_sorted_by_y' and the
\* diagram are computed from the list as that call left it.
RECURSIVE build_tree_on_x(_)
build_tree_on_x(pts) ==
    IF pts = <<>> THEN [ret |-> None, points |-> pts]
    ELSE LET byx == sort(pts, "x")
             mid == Mid(byx)
             ycall == build_tree_on_y(byx)
             byy == ycall.points
         IN [ret |-> [point |-> byx[mid + 1],
                      left |-> build_tree_on_x(LeftOf(byx, mid)).ret,
                      right |-> build_tree_on_x(RightOf(byx, mid)).ret,
                      range_tree_on_y |-> ycall.ret,
                      points_sorted_by_y |-> sorted(byy, "y"),
                      voronoi |-> compute_voronoi(byy)],
             points |-> byy]

(* -------------------------------- query -------------------------------- *)

\* A descent test with a strict comparison.
GoesLeftStrict(qp, node) == qp.feature_point.x < node.point.feature_point.x

\* query_point.feature_point.x <= node['point'].feature_point.x
GoesLeft(qp, node) == qp.feature_point.x <= node.point.feature_point.x

\* _query_tree: the value of visited_nodes after the call.
RECURSIVE query_tree(_, _, _)
query_tree(node, qp, visited) ==
    IF node = None THEN visited
    ELSE IF GoesLeft(qp, node)
         THEN query_tree(node.left, qp, Append(visited, node))
         ELSE query_tree(node.right, qp, Append(visited, node))

\* _visualize_voronoi: what the call shows. A diagram is plotted, with the
\* real-space points and the query point over it, only when vor is not None.
visualize_voronoi(vor, pts, qp) ==
    IF vor # None
    THEN [kind |-> "plot", vor |-> vor,
          scatter |-> real_points_as_float(pts), query |-> qp.real_point]
    ELSE [kind |-> "skip"]

(* --------------------------- the state machine ------------------------- *)

\* Node(Point(feature_space[i]...), Point(real_space[i]...)) for i < n
Zip(fs, rs, n) ==
    [i \in 1..n |-> Node(Point(fs[i][1], fs[i][2]), Point(rs[i][1], rs[i][2]))]

Untouched ==
    /\ input = <<>>
    /\ root = None
    /\ error = "none"
    /\ query_point = None
    /\ visited_nodes = <<>>
    /\ rendered = <<>>

\* The reference program at its entry, for any two coordinate lists.
InitMain ==
    /\ feature_space \in ListsOver(FeatureCoords, MaxLen)
    /\ real_space \in ListsOver(RealCoords, MaxLen)
    /\ points = <<>>
    /\ pc = "main"
    /\ Untouched

\* The reference program about to construct the tree, for two coordinate
\* lists of equal length paired from SamplePairs.
Init ==
    /\ feature_space \in ListsOver(FeatureCoords, MaxLen)
    /\ real_space \in [1..Len(feature_space) -> RealCoords]
    /\ \A i \in 1..Len(feature_space) :
           <<feature_space[i], real_space[i]>> \in SamplePairs
    /\ points = Zip(feature_space, real_space, Len(feature_space))
    /\ pc = "points"
    /\ Untouched

\* The loop that pairs the lists. It runs over the indices of feature_space
\* and checks no lengths: a longer real_space is cut short, a shorter one
\* ends the program with an IndexError at the first missing index.
Main ==
    /\ pc = "main"
    /\ IF Len(feature_space) <= Len(real_space)
       THEN /\ points' = Zip(feature_space, real_space, Len(feature_space))
            /\ pc' = "points"
            /\ error' = error
       ELSE /\ points' = Zip(feature_space, real_space, Len(real_space))
            /\ pc' = "error"
            /\ error' = "IndexError"
    /\ UNCHANGED <<feature_space, real_space, input, root, query_point,
                   visited_nodes, rendered>>

\* RangeTree2D(points). input records the list as the caller passed it.
Construct ==
    /\ pc = "points"
    /\ input' = points
    /\ LET call == build_tree_on_x(points)
       IN /\ root' = call.ret
          /\ points' = call.points
    /\ pc' = "built"
    /\ UNCHANGED <<feature_space, real_space, error, query_point,
                   visited_nodes, rendered>>

\* tree.query(query_point): the descent, then one sink call per visited node.
Query ==
    /\ pc \in {"built", "queried"}
    /\ \E qp \in QueryPoints :
         LET visited == query_tree(root, qp, <<>>)
         IN /\ query_point' = qp
            /\ visited_nodes' = visited
            /\ rendered' = [i \in 1..Len(visited) |->
                              visualize_voronoi(visited[i].voronoi,
                                                visited[i].points_sorted_by_y,
                                                qp)]
    /\ pc' = "queried"
    /\ UNCHANGED <<feature_space, real_space, points, input, root, error>>

Next == Construct \/ Query

Spec == Init /\ [][Next]_vars

NextMain == Main \/ Construct \/ Query

SpecMain == InitMain /\ [][NextMain]_vars

(* ------------------------ reading a built tree ------------------------ *)

Built == pc \in {"built", "queried"}

Max(a, b) == IF a >= b THEN a ELSE b

\* Number of nodes reachable from t through 'left' and 'right'.
RECURSIVE Size(_)
Size(t) == IF t = None THEN 0 ELSE 1 + Size(t.left) + Size(t.right)

\* Height in edges; an absent tree has height -1.
RECURSIVE Height(_)
Height(t) == IF t = None THEN 0 - 1
             ELSE 1 + Max(Height(t.left), Height(t.right))

\* The 'point' of every node of t, in order.
RECURSIVE Medians(_)
Medians(t) == IF t = None THEN <<>>
              ELSE Medians(t.left) \o <<t.point>> \o Medians(t.right)

\* The nodes of t.
RECURSIVE Subtrees(_)
Subtrees(t) == IF t = None THEN {}
               ELSE {t} \cup Subtrees(t.left) \cup Subtrees(t.right)

Count(s, e) == Cardinality({i \in 1..Len(s) : s[i] = e})

\* a and b hold the same points, each as many times.
SamePoints(a, b) ==
    /\ Len(a) = Len(b)
    /\ \A i \in 1..Len(a) : Count(a, a[i]) = Count(b, a[i])

Last(s) == s[Len(s)]

\* The stable ascending order of s by key k, stated by position: an element
\* stands behind the elements with a smaller key and behind those with an
\* equal key that came before it.
RankSort(s, k) ==
    LET rank(i) == Cardinality({j \in 1..Len(s) :
                       \/ KeyOf(s[j], k) < KeyOf(s[i], k)
                       \/ KeyOf(s[j], k) = KeyOf(s[i], k) /\ j < i}) + 1
    IN SubSeq([r \in 1..Len(s) |-> s[CHOOSE i \in 1..Len(s) : rank(i) = r]],
              1, Len(s))

\* The child the descent rule names at node nd for the current query target.
DescentChild(nd) ==
    IF query_point.feature_point.x <= nd.point.feature_point.x
    THEN nd.left ELSE nd.right

(* ------------------------------- claims -------------------------------- *)

\* C1: the primary tree built from n points has exactly n nodes, every
\* input point is the median of exactly one primary node (the medians are
\* the input points, each as many times as it occurs in the input), and an
\* empty input yields an absent root.
C1_NodeCount ==
    Built =>
        /\ Size(root) = Len(input)
        /\ SamePoints(Medians(root), input)
        /\ (input = <<>>) <=> (root = None)

\* A tree was built from at least three points, two of them equal.
C1_Witness ==
    /\ pc = "built"
    /\ Len(input) >= 3
    /\ \E i, j \in 1..Len(input) : i < j /\ input[i] = input[j]

\* C2: the visited sequence is the chain of the descent rule: empty for an
\* absent root, otherwise it starts at the root, each next element is the
\* child the rule names at the previous one, and the rule names no child at
\* the last one; no error is raised.
C2_DescentChain ==
    pc = "queried" =>
        /\ (root = None) => (visited_nodes = <<>>)
        /\ (root # None) => (visited_nodes # <<>> /\ visited_nodes[1] = root)
        /\ \A i \in 1..(Len(visited_nodes) - 1) :
               visited_nodes[i + 1] = DescentChild(visited_nodes[i])
        /\ (visited_nodes # <<>>) => (DescentChild(Last(visited_nodes)) = None)
        /\ error = "none"

\* A descent of three nodes whose last comparison was on equal x.
C2_Witness ==
    /\ pc = "queried"
    /\ Len(visited_nodes) = 3
    /\ query_point.feature_point.x = Last(visited_nodes).point.feature_point.x

\* C3 as stated: a query visits at most h+1 nodes, and strictly fewer than n
\* when n > 1.
C3_Original ==
    pc = "queried" =>
        /\ Len(visited_nodes) <= Height(root) + 1
        /\ (Len(input) > 1) => (Len(visited_nodes) < Len(input))

\* C3 amended: a query visits at most h+1 nodes, and strictly fewer than n
\* when n > 2 (a tree of two points is a root with a left child, and a
\* target at or below the root's x visits both).
C3_TraversalBound ==
    pc = "queried" =>
        /\ Len(visited_nodes) <= Height(root) + 1
        /\ (Len(input) > 2) => (Len(visited_nodes) < Len(input))

\* A query on more than two points that went down a longest path.
C3_Witness ==
    /\ pc = "queried"
    /\ Len(input) > 2
    /\ Len(visited_nodes) = Height(root) + 1

\* C4: coordinate lists of unequal lengths signal MismatchedInputLengths
\* and no tree is built.
C4_MismatchSignalled ==
    (pc # "main" /\ Len(feature_space) # Len(real_space)) =>
        /\ error = "MismatchedInputLengths"
        /\ pc = "error"
        /\ root = None

\* C5: after construction the caller's list holds the same points in the
\* same order as before the call.
C5_InputUnchanged == Built => (points = input)

\* C6: at every primary node the secondary tree and 'points_sorted_by_y'
\* have 1 + |left subtree| + |right subtree| elements and hold exactly the
\* node's median plus the medians of its left and right primary subtrees.
C6_SubsetCoverage ==
    Built =>
        \A nd \in Subtrees(root) :
            LET n == 1 + Size(nd.left) + Size(nd.right)
            IN /\ Size(nd.range_tree_on_y) = n
               /\ Len(nd.points_sorted_by_y) = n
               /\ SamePoints(Medians(nd.range_tree_on_y), Medians(nd))
               /\ SamePoints(nd.points_sorted_by_y, Medians(nd))

\* A tree of at least four points with an inner node below the root.
C6_Witness ==
    /\ pc = "built"
    /\ Size(root) >= 4
    /\ \E nd \in Subtrees(root) : nd # root /\ Size(nd) >= 2

\* C7: 'points_sorted_by_y' of every primary node is non-decreasing in
\* feature-space y.
C7_SortedByY ==
    Built =>
        \A nd \in Subtrees(root) :
            \A i \in 1..(Len(nd.points_sorted_by_y) - 1) :
                nd.points_sorted_by_y[i].feature_point.y
                    <= nd.points_sorted_by_y[i + 1].feature_point.y

\* A tree of at least three points whose x order is not a y order.
C7_Witness ==
    /\ pc = "built"
    /\ Len(input) >= 3
    /\ Len(root.points_sorted_by_y) >= 3
    /\ root.points_sorted_by_y # RankSort(input, "x")
    /\ root.points_sorted_by_y[1].feature_point.y
           < Last(root.points_sorted_by_y).feature_point.y

\* C8: every primary or secondary node built from fewer than 4 points has
\* no diagram, and a query plots no diagram for such a visited node: the
\* sink is called once per visited node and skips it.
C8_DiagramGating ==
    /\ Built =>
           \A nd \in Subtrees(root) :
               /\ (Size(nd) < 4) => (nd.voronoi = None)
               /\ \A sn \in Subtrees(nd.range_tree_on_y) :
                      (Size(sn) < 4) => (sn.voronoi = None)
    /\ pc = "queried" =>
           /\ Len(rendered) = Len(visited_nodes)
           /\ \A i \in 1..Len(visited_nodes) :
                  (Size(visited_nodes[i]) < 4) => (rendered[i].kind = "skip")

\* A query that plotted one visited node's diagram and skipped a visited
\* node of fewer than 4 points.
C8_Witness ==
    /\ pc = "queried"
    /\ \E i, j \in 1..Len(visited_nodes) :
           /\ rendered[i].kind = "plot"
           /\ Size(visited_nodes[j]) < 4
           /\ rendered[j].kind = "skip"

\* The split invariant at node nd, whose build call received subset, for
\* sort key k: the median is element mid = n div 2 of the stable order by k,
\* the left subtree satisfies it for elements [0, mid) and the right subtree
\* for elements (mid, n); a primary node's secondary tree satisfies it, for
\* key y, on the list as the primary call sorted it.
RECURSIVE SplitHolds(_, _, _)
SplitHolds(nd, subset, k) ==
    IF subset = <<>> THEN nd = None
    ELSE /\ nd # None
         /\ LET s == RankSort(subset, k)
                n == Len(s)
                mid == n \div 2
            IN /\ nd.point = s[mid + 1]
               /\ SplitHolds(nd.left, SubSeq(s, 1, mid), k)
               /\ SplitHolds(nd.right, SubSeq(s, mid + 2, n), k)
               /\ (k = "x") => SplitHolds(nd.range_tree_on_y, s, "y")

\* C9: the split invariant holds at every primary node for key x and at
\* every secondary node for key y; the secondary build's sort by y does not
\* change the primary median or halves.
C9_SplitInvariant == Built => SplitHolds(root, input, "x")

\* A tree of at least three points where the list as the secondary build
\* left it has another element at the median index than the root's median.
C9_Witness ==
    /\ pc = "built"
    /\ Len(input) >= 3
    /\ points # RankSort(input, "x")
    /\ root.point # points[(Len(points) \div 2) + 1]

\* C10 as stated: the visited path of a non-empty tree starts at the root
\* and ends at a node with neither a left nor a right child.
C10_Original ==
    (pc = "queried" /\ root # None) =>
        /\ visited_nodes # <<>>
        /\ visited_nodes[1] = root
        /\ Last(visited_nodes).left = None
        /\ Last(visited_nodes).right = None

\* C10 amended: the visited path of a non-empty tree starts at the root and
\* ends at a node with no right child; that node is a leaf when the target's
\* x is at most its median's x, and may keep a left child otherwise.
C10_RootToLastNode ==
    (pc = "queried" /\ root # None) =>
        /\ visited_nodes # <<>>
        /\ visited_nodes[1] = root
        /\ Last(visited_nodes).right = None
        /\ (query_point.feature_point.x
                <= Last(visited_nodes).point.feature_point.x)
               => (Last(visited_nodes).left = None)

\* A query that ended at a node which still has a left child.
C10_Witness ==
    /\ pc = "queried"
    /\ visited_nodes # <<>>
    /\ Last(visited_nodes).left # None

====
